---- MODULE Spec2Model ----
(***************************************************************************)
(* Model of Romanizer::romanize (src/lib.rs).                              *)
(*                                                                         *)
(* One behaviour is one call of romanize: Init is the state on entry to    *)
(* the token loop (line 58), one action per branch of the loop body, and   *)
(* Return is the final normalisation of lines 121-123.                     *)
(*                                                                         *)
(* Text is a sequence of characters; a character is a TLA+ string naming   *)
(* one Unicode scalar value:                                               *)
(*   "KA"     U+30AB  katakana KA            (3 bytes in UTF-8)            *)
(*   "CHOON"  U+30FC  katakana length mark   (3 bytes)                     *)
(*   "WTILDE" U+FF5E  full-width tilde       (3 bytes)                     *)
(*   "GA"     U+AC00  hangul syllable GA     (3 bytes)                     *)
(*   "MACRON" U+0304  combining macron       (2 bytes)                     *)
(*   "AMACRON" U+0101, "UAMACRON" U+0100  a/A with macron (2 bytes)        *)
(*   "k" "a" "g" "K" "A" "-" "~" " "  ASCII  (1 byte)                      *)
(* Offsets (idx, last_idx) are byte offsets, as str::find returns them.    *)
(***************************************************************************)
EXTENDS Integers, Sequences, FiniteSets, TLC

\* Longest input text, in characters.
MaxLen == 3

\* Characters an input is made of.
Alphabet == {"KA", "CHOON", "k", "WTILDE", "GA"}

\* Values of feature[0]: kigou = the symbol category compared at line 74,
\* meishi = the noun category compared at line 91, joshi = any other one.
Kigou == "kigou"
Meishi == "meishi"
PartsOfSpeech == {Kigou, Meishi, "joshi"}

\* feature.get(8) is None: the feature list has fewer than nine fields.
NoFeature == <<>>

\* Values of feature[8] when it is present (katakana pronunciations).
Pronunciations == {<<"KA">>}

\* Option<usize>::None of str::find.
NotFound == -1

----------------------------------------------------------------------------
\* Pure helpers: strings, UTF-8 widths, the external text functions.

\* Bytes of one character in UTF-8.
Width(c) ==
  IF c \in {"KA", "CHOON", "WTILDE", "GA"} THEN 3
  ELSE IF c \in {"MACRON", "AMACRON", "UAMACRON"} THEN 2
  ELSE 1

RECURSIVE ByteLen(_)
\* str::len: the length of a text in bytes.
ByteLen(s) == IF s = <<>> THEN 0 ELSE Width(Head(s)) + ByteLen(Tail(s))

\* Byte offset of the character at (1-based) position p of s.
ByteOff(s, p) == ByteLen(SubSeq(s, 1, p - 1))

\* The character position whose byte offset is b, 0 when b is no character
\* boundary of s (slicing there panics).
CharPos(s, b) ==
  IF \E p \in 1..(Len(s) + 1) : ByteOff(s, p) = b
    THEN CHOOSE p \in 1..(Len(s) + 1) : ByteOff(s, p) = b
    ELSE 0

\* Whether needle stands in hay at character position p.
OccursAt(hay, needle, p) ==
  /\ p >= 1
  /\ p + Len(needle) - 1 <= Len(hay)
  /\ SubSeq(hay, p, p + Len(needle) - 1) = needle

\* Position of the first occurrence of needle in hay at or after position
\* from, 0 when there is none.
FindPos(hay, needle, from) ==
  LET hits == {p \in from..(Len(hay) + 1) : OccursAt(hay, needle, p)}
  IN  IF hits = {} THEN 0
      ELSE CHOOSE p \in hits : \A q \in hits : p <= q

\* str::find on the whole text: byte offset of the first match or None.
Find(hay, needle) ==
  LET p == FindPos(hay, needle, 1)
  IN  IF p = 0 THEN NotFound ELSE ByteOff(hay, p)

\* s with the n characters at position p replaced by r.
Splice(s, p, n, r) == SubSeq(s, 1, p - 1) \o r \o SubSeq(s, p + n, Len(s))

RECURSIVE Flatten(_)
\* The concatenation of a sequence of texts.
Flatten(ss) == IF ss = <<>> THEN <<>> ELSE Head(ss) \o Flatten(Tail(ss))

\* hangeul::romanize on one character: hangul becomes Latin letters, every
\* other character is kept.
HangeulChar(c) == IF c = "GA" THEN <<"g", "a">> ELSE <<c>>

\* hangeul::romanize.
HangeulRomanize(s) == Flatten([j \in 1..Len(s) |-> HangeulChar(s[j])])

\* wana_kana to_romaji on one character: kana becomes Latin letters, the
\* length mark becomes an ASCII hyphen, anything else is kept.
ToRomajiChar(c) ==
  IF c = "KA" THEN <<"k", "a">>
  ELSE IF c = "CHOON" THEN <<"-">>
  ELSE <<c>>

\* wana_kana::to_romaji.
to_romaji(s) == Flatten([j \in 1..Len(s) |-> ToRomajiChar(s[j])])

\* wana_kana::is_katakana: every character is katakana.
is_katakana(s) == s # <<>> /\ \A j \in 1..Len(s) : s[j] \in {"KA", "CHOON"}

\* char::is_alphanumeric.
is_alphanumeric(c) == c \in {"KA", "CHOON", "GA", "k", "a", "g", "K", "A",
                             "AMACRON", "UAMACRON"}

\* char::to_uppercase.
to_uppercase(c) ==
  IF c = "k" THEN "K"
  ELSE IF c = "a" THEN "A"
  ELSE IF c = "g" THEN "G"
  ELSE IF c = "AMACRON" THEN "UAMACRON"
  ELSE c

\* A bug that leaves the first character as it is.
uppercase_first_character_noop(s) == s

\* uppercase_first_character (lines 128-134).
uppercase_first_character(s) ==
  IF s = <<>> THEN <<>> ELSE <<to_uppercase(Head(s))>> \o Tail(s)

\* replacement.replace('-', "\u{0304}") of line 95.
MacronChar(c) == IF c = "-" THEN <<"MACRON">> ELSE <<c>>

\* String::replace over the whole text.
MacronEncode(s) == Flatten([j \in 1..Len(s) |-> MacronChar(s[j])])

RECURSIVE nfkc(_)
\* UnicodeNormalization::nfkc: a vowel and a following combining macron
\* compose, the full-width tilde folds to the ASCII one.
nfkc(s) ==
  IF s = <<>> THEN <<>>
  ELSE IF Len(s) >= 2 /\ s[2] = "MACRON" /\ s[1] \in {"a", "A"}
    THEN <<IF s[1] = "a" THEN "AMACRON" ELSE "UAMACRON">> \o nfkc(SubSeq(s, 3, Len(s)))
  ELSE IF s[1] = "WTILDE" THEN <<"~">> \o nfkc(Tail(s))
  ELSE <<s[1]>> \o nfkc(Tail(s))

----------------------------------------------------------------------------
\* The state of one call of romanize.

VARIABLES
  input,         \* the argument of romanize
  tokens,        \* parts: what tagger.parse(input) returned (line 54); the
                 \* feature list of a part is drawn when the loop reads it
                 \* (line 70) and is Unread before
  romanized,     \* the output buffer (line 52)
  owner,         \* per character of romanized: the index of the token whose
                 \* span of the input it came from, 0 for a character the
                 \* loop wrote (bookkeeping, not read by any action)
  insert_space,  \* line 55
  last_idx,      \* line 57
  i,             \* index in tokens of the part the for loop handles next
  pc,            \* "loop", "done" (returned) or "panicked" (an unwrap failed)
  output         \* the returned String, NoOutput until the call returns

vars == <<input, tokens, romanized, owner, insert_space, last_idx, i, pc, output>>

\* No String has been returned.
NoOutput == <<"NoOutput">>

\* feature.get(8).or(if is_katakana(surface) { Some(surface) } else { None })
\* of lines 81-85; NoFeature stands for None.
katakana(part) ==
  IF part.pron # NoFeature THEN part.pron
  ELSE IF is_katakana(part.surface) THEN part.surface
  ELSE NoFeature

\* The three ways the loop body treats a part.
IsPunctuation(part) == part.pos = Kigou
IsPhonetic(part) == ~IsPunctuation(part) /\ katakana(part) # NoFeature
IsOpaque(part) == ~IsPunctuation(part) /\ katakana(part) = NoFeature

\* A bug that capitalizes every part of speech.
CapitalizeAlways(part, s) == uppercase_first_character(s)

\* Lines 90-93: capitalize nouns.
Capitalize(part, s) ==
  IF part.pos = Meishi THEN uppercase_first_character(s) ELSE s

\* Lines 88-99: the text that replaces a phonetic part.
Replacement(part, flag) ==
  LET r == MacronEncode(Capitalize(part, to_romaji(katakana(part))))
  IN  IF flag THEN <<" ">> \o r ELSE r

\* A bug that drops the is_alphanumeric test.
SpaceBeforeOpaqueAnyChar(part, flag) == flag

\* The condition of lines 105-110.
SpaceBeforeOpaque(part, flag) ==
  flag /\ (IF part.surface = <<>> THEN FALSE
           ELSE is_alphanumeric(Head(part.surface)))

\* str::replace: every non-overlapping match, left to right.
RECURSIVE MatchesFrom(_, _, _)
MatchesFrom(hay, pat, from) ==
  LET p == FindPos(hay, pat, from)
  IN  IF p = 0 THEN {} ELSE {p} \cup MatchesFrom(hay, pat, p + Len(pat))

\* A bug that calls replace instead of replacen(.., 1).
ReplaceTargetsAll(hay, pat) == MatchesFrom(hay, pat, 1)

\* The matches replacen(pat, .., 1) of line 101 rewrites: the first one.
ReplaceTargets(hay, pat) ==
  LET p == FindPos(hay, pat, 1) IN IF p = 0 THEN {} ELSE {p}

RECURSIVE SpliceAll(_, _, _, _)
\* s with the n characters at each position of targets replaced by r.
SpliceAll(s, targets, n, r) ==
  IF targets = {} THEN s
  ELSE LET p == CHOOSE x \in targets : \A y \in targets : y <= x
       IN  SpliceAll(Splice(s, p, n, r), targets \ {p}, n, r)

\* Written(n): the owner of n characters the loop wrote.
Written(n) == [j \in 1..n |-> 0]

\* A bug that moves the cursor past the surface it found.
NextLastIdxPastSurface(idx, part) == idx + ByteLen(part.surface)

\* Line 118: the cursor becomes the offset line 79 found.
NextLastIdx(idx, part) == idx

----------------------------------------------------------------------------
\* The inputs of a call: a text and its tokenization.

RECURSIVE Segments(_, _, _)
\* The surfaces of the tokens of inp, cut after each position of cuts.
Segments(inp, cuts, start) ==
  IF start > Len(inp) THEN <<>>
  ELSE LET later == {c \in cuts : c >= start}
           end == IF later = {} THEN Len(inp)
                  ELSE CHOOSE c \in later : \A d \in later : c <= d
       IN  <<SubSeq(inp, start, end)>> \o Segments(inp, cuts, end + 1)

\* The feature lists of a token: feature[0] and feature.get(8).  Feature 8
\* of a symbol is never read (lines 74-77), so it is left out.
Features ==
  {f \in [pos : PartsOfSpeech, pron : Pronunciations \cup {NoFeature}] :
     f.pos = Kigou => f.pron = NoFeature}

\* The feature list of a part the loop has not read yet.
Unread == "unread"

RECURSIVE InitialOwner(_, _)
\* The owner of every character of the initial buffer.
InitialOwner(surf, k) ==
  IF k > Len(surf) THEN <<>>
  ELSE [j \in 1..Len(HangeulRomanize(surf[k])) |-> k]
         \o InitialOwner(surf, k + 1)

\* Lines 52-57.
Init ==
  \E n \in 0..MaxLen :
    \E inp \in [1..n -> Alphabet] :
      \E cuts \in SUBSET (1..(n - 1)) :
        LET surf == Segments(inp, cuts, 1)
        IN  /\ input = inp
            /\ tokens = [k \in 1..Len(surf) |->
                           [surface |-> surf[k], pos |-> Unread,
                            pron |-> NoFeature]]
            /\ romanized = HangeulRomanize(inp)
            /\ owner = InitialOwner(surf, 1)
            /\ insert_space = FALSE
            /\ last_idx = 0
            /\ i = 1
            /\ pc = "loop"
            /\ output = NoOutput

----------------------------------------------------------------------------
\* The loop body, one action per branch.  Each takes the part of this
\* iteration with the feature list read at line 70.

InLoop == pc = "loop" /\ i <= Len(tokens)

\* tokens[i] with feature list f.
Read(f) == [surface |-> tokens[i].surface, pos |-> f.pos, pron |-> f.pron]

\* A bug that returns the buffer as it stands when a lookup fails.
UnwrapNoneReturnsBuffer ==
  /\ pc' = "done"
  /\ output' = nfkc(romanized)
  /\ UNCHANGED <<input, romanized, owner, insert_space, last_idx, i>>

\* Option::unwrap on None (lines 79 and 112): the call panics.
UnwrapNone ==
  /\ pc' = "panicked"
  /\ UNCHANGED <<input, romanized, owner, insert_space, last_idx, i, output>>

\* Lines 74-77.
Punctuation(part) ==
  /\ InLoop
  /\ IsPunctuation(part)
  /\ tokens' = [tokens EXCEPT ![i] = part]
  /\ insert_space' = FALSE
  /\ i' = i + 1
  /\ UNCHANGED <<input, romanized, owner, last_idx, pc, output>>

\* Line 79 when find returns None.
LookupFails(part) ==
  /\ InLoop
  /\ ~IsPunctuation(part)
  /\ Find(romanized, part.surface) = NotFound
  /\ tokens' = [tokens EXCEPT ![i] = part]
  /\ UnwrapNone

\* Lines 79-102 and 118.
Phonetic(part) ==
  /\ InLoop
  /\ IsPhonetic(part)
  /\ Find(romanized, part.surface) # NotFound
  /\ tokens' = [tokens EXCEPT ![i] = part]
  /\ LET idx == Find(romanized, part.surface)
         replacement == Replacement(part, insert_space)
         targets == ReplaceTargets(romanized, part.surface)
     IN  /\ romanized' = SpliceAll(romanized, targets, Len(part.surface),
                                   replacement)
         /\ owner' = SpliceAll(owner, targets, Len(part.surface),
                               Written(Len(replacement)))
         /\ insert_space' = TRUE
         /\ last_idx' = NextLastIdx(idx, part)
  /\ i' = i + 1
  /\ UNCHANGED <<input, pc, output>>

\* Lines 79, 104-116 and 118.
Opaque(part) ==
  /\ InLoop
  /\ IsOpaque(part)
  /\ Find(romanized, part.surface) # NotFound
  /\ tokens' = [tokens EXCEPT ![i] = part]
  /\ LET idx == Find(romanized, part.surface)
         from == CharPos(romanized, last_idx)
         at == IF from = 0 THEN 0 ELSE FindPos(romanized, part.surface, from)
     IN  IF SpaceBeforeOpaque(part, insert_space)
           THEN IF at = 0
                  THEN UnwrapNone
                  ELSE /\ romanized' = Splice(romanized, at, 0, <<" ">>)
                       /\ owner' = Splice(owner, at, 0, Written(1))
                       /\ insert_space' = FALSE
                       /\ last_idx' = NextLastIdx(idx, part)
                       /\ i' = i + 1
                       /\ UNCHANGED <<input, pc, output>>
           ELSE /\ insert_space' = FALSE
                /\ last_idx' = NextLastIdx(idx, part)
                /\ i' = i + 1
                /\ UNCHANGED <<input, romanized, owner, pc, output>>

\* Lines 121-123.
Return ==
  /\ pc = "loop"
  /\ i > Len(tokens)
  /\ output' = nfkc(romanized)
  /\ pc' = "done"
  /\ UNCHANGED <<input, tokens, romanized, owner, insert_space, last_idx, i>>

\* One iteration of the for loop of line 58.
Step ==
  \E f \in Features :
    \/ Punctuation(Read(f))
    \/ LookupFails(Read(f))
    \/ Phonetic(Read(f))
    \/ Opaque(Read(f))

Next == Step \/ Return

Spec == Init /\ [][Next]_vars

----------------------------------------------------------------------------
\* Vocabulary of the properties.

\* The step just taken handled tokens[i] to the end of the loop body.
Processed == pc = "loop" /\ i <= Len(tokens) /\ i' = i + 1

\* The part the step just taken handled, with the features it read.
Current == tokens'[i]

\* Positions of the characters of buffer ownership own that belong to token k.
OwnCells(own, k) == {j \in 1..Len(own) : own[j] = k}

\* Whether needle stands in hay anywhere.
Occurs(hay, needle) == \E p \in 1..(Len(hay) + 1) : OccursAt(hay, needle, p)

\* Number of space characters of a text.
Spaces(s) == Cardinality({j \in 1..Len(s) : s[j] = " "})

\* A space the loop added stands at position j.
AddedSpaceAt(buf, own, j) ==
  j >= 1 /\ j <= Len(buf) /\ buf[j] = " " /\ own[j] = 0

\* Token k's span: the text the buffer was initialized with for it stands,
\* with its own characters, at one place of the buffer, and no space the
\* loop added touches it on either side.
SpanPreserved(buf, own, k) ==
  LET t == HangeulRomanize(tokens[k].surface)
  IN  \E p \in 1..Len(buf) :
        /\ OccursAt(buf, t, p)
        /\ \A j \in p..(p + Len(t) - 1) : own[j] = k
        /\ ~AddedSpaceAt(buf, own, p - 1)
        /\ ~AddedSpaceAt(buf, own, p + Len(t))

----------------------------------------------------------------------------
C2_PunctuationPreserved ==
  [][/\ (Processed /\ IsPunctuation(Current)) =>
          /\ romanized' = romanized
          /\ last_idx' = last_idx
          /\ insert_space' = FALSE
     /\ (pc' = "loop" /\ i' > Len(tokens')) =>
          \A k \in 1..Len(tokens') :
            IsPunctuation(tokens'[k]) => SpanPreserved(romanized', owner', k)]_vars

\* C3: processing token i adds exactly one space if the token right before
\* it was Phonetic and token i is Phonetic or Opaque starting with an
\* alphanumeric character, and no space otherwise; afterwards the flag is
\* true exactly if token i was Phonetic.
C3_SpacingByAdjacency ==
  [][Processed =>
       LET prevPhonetic == i > 1 /\ IsPhonetic(tokens[i - 1])
           wordLike == \/ IsPhonetic(Current)
                       \/ /\ IsOpaque(Current)
                          /\ is_alphanumeric(Head(Current.surface))
       IN  /\ Spaces(romanized') - Spaces(romanized)
                = (IF prevPhonetic /\ wordLike THEN 1 ELSE 0)
           /\ insert_space' = IsPhonetic(Current)]_vars

\* An Opaque token that follows a Phonetic one was given a space.
C3_Witness ==
  /\ pc = "loop"
  /\ i > 2
  /\ IsPhonetic(tokens[i - 2])
  /\ IsOpaque(tokens[i - 1])
  /\ Spaces(romanized) >= 1
  /\ ~insert_space

\* The reading a Phonetic token is transliterated from.
ReadingOf(part) ==
  IF part.pron # NoFeature THEN part.pron ELSE part.surface

\* Every hyphen of s as a combining macron.
HyphensAsMacrons(s) ==
  [j \in 1..Len(s) |-> IF s[j] = "-" THEN "MACRON" ELSE s[j]]

\* s with its first character uppercased.
FirstCharacterUpper(s) ==
  IF s = <<>> THEN s ELSE [s EXCEPT ![1] = to_uppercase(s[1])]

\* s with its first letter uppercased.
FirstLetterUpper(s) ==
  LET letters == {j \in 1..Len(s) : is_alphanumeric(s[j])}
  IN  IF letters = {} THEN s
      ELSE LET f == CHOOSE j \in letters : \A l \in letters : j <= l
           IN  [s EXCEPT ![f] = to_uppercase(s[f])]

\* The step just taken put text, after a space exactly if the flag was set,
\* in place of one occurrence of the surface of the Phonetic token.
WroteForPhonetic(text) ==
  LET lead == IF insert_space THEN <<" ">> ELSE <<>>
  IN  /\ \E p \in 1..Len(romanized) :
           /\ OccursAt(romanized, Current.surface, p)
           /\ romanized' = Splice(romanized, p, Len(Current.surface),
                                  lead \o text)
      /\ \A j \in 1..Len(text) : text[j] # "-"

\* C4 as stated: the text written for a Phonetic token is the
\* transliteration of its reading with the first letter uppercased exactly
\* for a noun and every hyphen replaced by the combining macron.
C4_FirstLetter ==
  [][(Processed /\ IsPhonetic(Current)) =>
       LET t == to_romaji(ReadingOf(Current))
       IN  WroteForPhonetic(HyphensAsMacrons(
             IF Current.pos = Meishi THEN FirstLetterUpper(t) ELSE t))]_vars

\* C4 amended: the first character is uppercased exactly for a noun, which
\* changes nothing when the transliteration starts with a length-marker
\* hyphen; every hyphen is replaced by the combining macron.
C4_FirstCharacter ==
  [][(Processed /\ IsPhonetic(Current)) =>
       LET t == to_romaji(ReadingOf(Current))
       IN  WroteForPhonetic(HyphensAsMacrons(
             IF Current.pos = Meishi THEN FirstCharacterUpper(t) ELSE t))]_vars

\* A noun was written after a space with its capital right after the space,
\* and a length mark was written as a macron.
C4_Witness ==
  /\ i > 1
  /\ IsPhonetic(tokens[i - 1])
  /\ tokens[i - 1].pos = Meishi
  /\ \E j \in 1..(Len(romanized) - 1) :
       AddedSpaceAt(romanized, owner, j) /\ romanized[j + 1] = "K"
  /\ \E j \in 1..Len(romanized) : romanized[j] = "MACRON"

\* The step just taken rewrote the occurrence at position p of the surface
\* of the current token, and nothing else.
RewroteAt(p) ==
  LET n == Len(Current.surface)
      m == Len(romanized') - Len(romanized) + n
  IN  /\ OccursAt(romanized, Current.surface, p)
      /\ m >= 0
      /\ romanized' = Splice(romanized, p, n, SubSeq(romanized', p, p + m - 1))
      /\ owner' = Splice(owner, p, n, Written(m))

\* The occurrence at position q of the surface of the current token stands
\* unmodified after the step, moved by the change of length when it is to
\* the right of the rewritten position p.
StillStands(p, q) ==
  LET n == Len(Current.surface)
      q2 == IF q < p THEN q ELSE q + Len(romanized') - Len(romanized)
  IN  /\ OccursAt(romanized', Current.surface, q2)
      /\ SubSeq(owner', q2, q2 + n - 1) = SubSeq(owner, q, q + n - 1)

\* The occurrences at p and q of a text of n characters share a character.
Overlap(p, q, n) == q < p + n /\ p < q + n

\* C5 as stated: a Phonetic step rewrites exactly one occurrence of the
\* surface, and every other occurrence that was in the buffer is still
\* present, unmodified, after the step.
C5_EveryOtherOccurrence ==
  [][(Processed /\ IsPhonetic(Current)) =>
       \E p \in 1..Len(romanized) :
         /\ RewroteAt(p)
         /\ \A q \in 1..Len(romanized) :
              (q # p /\ OccursAt(romanized, Current.surface, q))
                => StillStands(p, q)]_vars

\* C5 amended: a Phonetic step rewrites exactly one occurrence of the
\* surface, and every other occurrence that does not overlap the rewritten
\* one is still present, unmodified, after the step.
C5_SingleSubstitution ==
  [][(Processed /\ IsPhonetic(Current)) =>
       \E p \in 1..Len(romanized) :
         /\ RewroteAt(p)
         /\ \A q \in 1..Len(romanized) :
              (/\ q # p
               /\ OccursAt(romanized, Current.surface, q)
               /\ ~Overlap(p, q, Len(Current.surface)))
                => StillStands(p, q)]_vars

\* A Phonetic token was rewritten and another occurrence of its surface,
\* made of characters of the input, is still in the buffer.
C5_Witness ==
  /\ i > 1
  /\ pc = "loop"
  /\ IsPhonetic(tokens[i - 1])
  /\ \E j \in 1..Len(owner) : owner[j] = 0
  /\ \E q \in 1..Len(romanized) :
       /\ OccursAt(romanized, tokens[i - 1].surface, q)
       /\ \A j \in q..(q + Len(tokens[i - 1].surface) - 1) : owner[j] > 0

\* C6: last_idx never decreases during the token loop.
C6_CursorMonotonic == [][last_idx' >= last_idx]_vars

\* C7: at the start of every iteration the cursor is a character boundary of
\* the buffer, at most its length and at most the offset of every character
\* of the current token and of the tokens not yet processed; so the search
\* from the cursor finds the surface of the current token whenever the
\* search of the whole buffer does.
C7_CursorLowerBound ==
  pc = "loop" =>
    /\ last_idx <= ByteLen(romanized)
    /\ CharPos(romanized, last_idx) # 0
    /\ \A j \in 1..Len(romanized) :
         owner[j] >= i => last_idx <= ByteOff(romanized, j)
    /\ i <= Len(tokens) =>
         (Occurs(romanized, tokens[i].surface) =>
            \E p \in 1..Len(romanized) :
              /\ ByteOff(romanized, p) >= last_idx
              /\ OccursAt(romanized, tokens[i].surface, p))

\* The cursor has moved off the start, a replacement has shortened the
\* buffer in bytes, and a token is still to be processed.
C7_Witness ==
  /\ pc = "loop"
  /\ i > 1
  /\ i <= Len(tokens)
  /\ last_idx > 0
  /\ IsPhonetic(tokens[i - 1])
  /\ ByteLen(romanized) < ByteLen(HangeulRomanize(input))

\* C8: when an Opaque token gets a space, the space goes right before the
\* first character of the token's own span.
C8_SpaceBeforeOwnSpan ==
  [][(Processed /\ IsOpaque(Current) /\ romanized' # romanized) =>
       \E p \in 1..Len(romanized) :
         /\ romanized' = Splice(romanized, p, 0, <<" ">>)
         /\ owner' = Splice(owner, p, 0, Written(1))
         /\ \A j \in 0..(Len(Current.surface) - 1) :
              p + j <= Len(owner) /\ owner[p + j] = i]_vars

\* C9: the first occurrence of a Phonetic token's surface, the one the step
\* rewrites, is the token's own span.
C9_RewritesOwnSpan ==
  [][(Processed /\ IsPhonetic(Current)) =>
       \E p \in 1..Len(romanized) :
         /\ RewroteAt(p)
         /\ \A q \in 1..(p - 1) : ~OccursAt(romanized, Current.surface, q)
         /\ \A j \in p..(p + Len(Current.surface) - 1) : owner[j] = i]_vars

RECURSIVE InOrder(_, _, _, _)
\* The surfaces of tokens k.. stand in buf from position from on, one after
\* the other from left to right.
InOrder(buf, parts, k, from) ==
  \/ k > Len(parts)
  \/ LET p == FindPos(buf, parts[k].surface, from)
     IN  p # 0 /\ InOrder(buf, parts, k + 1, p + Len(parts[k].surface))

\* C10: the tokens are a tokenization of the text the buffer is initialized
\* from: their surfaces stand in the initial buffer from left to right, and
\* the lookup of the first non-punctuation token does not fail.
C10_TokensOfInitialBuffer ==
  [][/\ i = 1 => InOrder(romanized, tokens, 1, 1)
     /\ (InLoop /\ romanized = HangeulRomanize(input)
           /\ \A k \in 1..(i - 1) : IsPunctuation(tokens[k]))
          => pc' # "panicked"]_vars

====
